---- MODULE Spec2Model ----
(***************************************************************************)
(* Model of the argument parsers of s3find (src/arg.rs): the FromStr       *)
(* implementations of S3path, FindSize, FindTime and FindTag.              *)
(*                                                                         *)
(* A string is a sequence of one-character strings.  An Option is a        *)
(* sequence of length 0 (None) or 1 (Some).  An i64 is kept at its width:  *)
(* it is its 64-bit two's complement pattern, 8 little-endian limbs of     *)
(* 8 bits; the arithmetic is done on limbs.                                *)
(***************************************************************************)
EXTENDS Integers, Sequences, FiniteSets, TLC

VARIABLES arg, keys, result

vars == <<arg, keys, result>>

(***************************************************************************)
(* Bounds: the number of tokens (a character, or a pasted piece of text)   *)
(* the argument of each parser is made of.                                 *)
(***************************************************************************)
MaxPathKeys == 6
MaxSizeKeys == 3
MaxTimeKeys == 3
MaxTagKeys == 5

None == <<>>
Some(x) == <<x>>

Pending == [tag |-> "Pending"]

\* ---------------------------------------------------------------------
\* str::split(char): the segments between the separators; a string with
\* no separator is one segment.
\* ---------------------------------------------------------------------
RECURSIVE split(_, _)
split(s, sep) ==
  IF \E i \in 1..Len(s) : s[i] = sep
  THEN LET i == CHOOSE j \in 1..Len(s) :
                  s[j] = sep /\ \A k \in 1..(j - 1) : s[k] # sep
       IN  <<SubSeq(s, 1, i - 1)>> \o split(SubSeq(s, i + 1, Len(s)), sep)
  ELSE <<s>>

\* slice::get with a 0-based index
get(v, i) == IF i < Len(v) THEN Some(v[i + 1]) ELSE None

\* Option::unwrap_or
unwrap_or(o, d) == IF o = None THEN d ELSE o[1]

\* ---------------------------------------------------------------------
\* impl FromStr for S3path
\* ---------------------------------------------------------------------
S3Scheme == <<"s", "3", ":">>

\* a plausible slip: the bucket is not required to be non-empty
is_validated_AnyBucket(s3_vec, bucket) ==
  (get(s3_vec, 0) = Some(S3Scheme)) /\ (get(s3_vec, 1) = Some(<<>>))

is_validated(s3_vec, bucket) ==
  (get(s3_vec, 0) = Some(S3Scheme)) /\ (get(s3_vec, 1) = Some(<<>>))
    /\ (bucket # <<>>)

S3path_from_str(s) ==
  LET s3_vec == split(s, "/")
      bucket == unwrap_or(get(s3_vec, 2), <<>>)
      prefix == get(s3_vec, 3)
  IN  IF is_validated(s3_vec, bucket)
      THEN [tag |-> "Ok", bucket |-> bucket, prefix |-> prefix]
      ELSE [tag |-> "Err", kind |-> "S3Parse"]

\* ---------------------------------------------------------------------
\* i64: the 64-bit two's complement pattern, 8 little-endian limbs of
\* 8 bits.
\* ---------------------------------------------------------------------
LimbBase == 256
I64Limbs == 8

Zeros(n) == [i \in 1..n |-> 0]

\* the limbs of a small natural number
RECURSIVE ToLimbs(_, _)
ToLimbs(n, len) ==
  IF len = 0 THEN <<>> ELSE <<n % LimbBase>> \o ToLimbs(n \div LimbBase, len - 1)

I64(n) == ToLimbs(n, I64Limbs)

\* x * k + c for one limb k; the result is one limb longer than x
RECURSIVE MulSmall(_, _, _)
MulSmall(x, k, c) ==
  IF x = <<>> THEN <<c>>
  ELSE LET t == x[1] * k + c
       IN  <<t % LimbBase>> \o MulSmall(Tail(x), k, t \div LimbBase)

\* x + y + c for limb sequences of the same length; the carry out is dropped
RECURSIVE AddLimbs(_, _, _)
AddLimbs(x, y, c) ==
  IF x = <<>> THEN <<>>
  ELSE LET t == x[1] + y[1] + c
       IN  <<t % LimbBase>> \o AddLimbs(Tail(x), Tail(y), t \div LimbBase)

\* the full product of x and y, Len(x) + Len(y) limbs
RECURSIVE MulWide(_, _)
MulWide(x, y) ==
  IF y = <<>> THEN Zeros(Len(x))
  ELSE AddLimbs(MulSmall(x, y[1], 0) \o Zeros(Len(y) - 1),
                <<0>> \o MulWide(x, Tail(y)), 0)

IsNegative(x) == x[I64Limbs] >= 128

\* i64::wrapping_mul: the low 64 bits of the product
wrapping_mul(x, y) == SubSeq(MulWide(x, y), 1, I64Limbs)

\* the product of two non-negative i64 does not fit in an i64
mul_overflows(x, y) ==
  LET p == MulWide(x, y)
  IN  \/ \E i \in (I64Limbs + 1)..Len(p) : p[i] # 0
      \/ p[I64Limbs] >= 128

\* The operator * on i64.  With overflow checks (a debug build) an overflow
\* panics; without them (a release build) the product wraps.  A panicked
\* operand stays panicked: nothing after the panic runs.
Panicked == <<>>

mul(x, y, overflow_checks) ==
  IF x = Panicked THEN Panicked
  ELSE IF overflow_checks /\ mul_overflows(x, y) THEN Panicked
  ELSE wrapping_mul(x, y)

\* i64::pow for a small exponent whose power fits
RECURSIVE pow(_, _)
pow(x, n) == IF n = 0 THEN I64(1) ELSE wrapping_mul(x, pow(x, n - 1))

\* ---------------------------------------------------------------------
\* str::parse::<i64>() of the text of a capture group
\* ---------------------------------------------------------------------
AsciiDigits == <<"0", "1", "2", "3", "4", "5", "6", "7", "8", "9">>

IsDigit(c) == \E d \in 1..10 : AsciiDigits[d] = c

to_digit(c) == (CHOOSE d \in 1..10 : AsciiDigits[d] = c) - 1

\* result * 10 + digit, both steps checked
RECURSIVE parse_digits(_, _)
parse_digits(s, acc) ==
  IF s = <<>> THEN [ok |-> TRUE, val |-> acc]
  ELSE IF ~IsDigit(s[1]) THEN [ok |-> FALSE, err |-> "InvalidDigit"]
  ELSE LET t == MulSmall(acc, 10, to_digit(s[1]))
       IN  IF t[I64Limbs + 1] # 0 \/ t[I64Limbs] >= 128
           THEN [ok |-> FALSE, err |-> "PosOverflow"]
           ELSE parse_digits(Tail(s), SubSeq(t, 1, I64Limbs))

parse_i64(s) ==
  IF s = <<>> THEN [ok |-> FALSE, err |-> "Empty"]
  ELSE parse_digits(s, I64(0))

\* ---------------------------------------------------------------------
\* Regex ([+-]?)(\d*)([units]?)$ and Regex::captures.  The three classes
\* are disjoint, so a match that starts at i has one shape: the sign if
\* s[i] is one, the longest run of digits, the unit if one follows; it is a
\* match when that reaches the end of the text.  captures returns the
\* leftmost match.
\* ---------------------------------------------------------------------
SignChars == {"+", "-"}

sign_end(s, i) == IF i <= Len(s) /\ s[i] \in SignChars THEN i + 1 ELSE i

RECURSIVE digits_end(_, _)
digits_end(s, i) ==
  IF i <= Len(s) /\ IsDigit(s[i]) THEN digits_end(s, i + 1) ELSE i

unit_end(s, i, units) == IF i <= Len(s) /\ s[i] \in units THEN i + 1 ELSE i

match_end(s, i, units) == unit_end(s, digits_end(s, sign_end(s, i)), units)

is_match_at(s, i, units) == match_end(s, i, units) = Len(s) + 1

captures(s, units) ==
  IF \E i \in 1..(Len(s) + 1) : is_match_at(s, i, units)
  THEN LET i == CHOOSE j \in 1..(Len(s) + 1) :
                  /\ is_match_at(s, j, units)
                  /\ \A k \in 1..(j - 1) : ~is_match_at(s, k, units)
           a == sign_end(s, i)
           b == digits_end(s, a)
       IN  Some(<<SubSeq(s, i, a - 1), SubSeq(s, a, b - 1),
                  SubSeq(s, b, Len(s))>>)
  ELSE None

\* str::chars().next()
first_char(s) == IF s = <<>> THEN None ELSE Some(s[1])

\* ---------------------------------------------------------------------
\* impl FromStr for FindSize
\* ---------------------------------------------------------------------
SizeUnits == {"k", "M", "G", "T", "P"}

Err(kind) == [tag |-> "Err", kind |-> kind]

\* the ? operator on the result of parse: the ParseIntError is the error
ParseIntError(cause) == [tag |-> "Err", kind |-> "ParseIntError", cause |-> cause]

Panic == [tag |-> "Panic"]

Ok(variant, value) ==
  IF value = Panicked THEN Panic
  ELSE [tag |-> "Ok", variant |-> variant, value |-> value]

Value(x) == [ret |-> FALSE, val |-> x]

Return(r) == [ret |-> TRUE, res |-> r]

\* a plausible slip: M takes the power of G
FindSize_bytes_WrongPower(number, metric, oc) ==
  IF metric = None THEN Value(number)
  ELSE IF metric = Some("k") THEN Value(mul(number, I64(1024), oc))
  ELSE IF metric = Some("M") THEN Value(mul(number, pow(I64(1024), 3), oc))
  ELSE IF metric = Some("G") THEN Value(mul(number, pow(I64(1024), 3), oc))
  ELSE IF metric = Some("T") THEN Value(mul(number, pow(I64(1024), 4), oc))
  ELSE IF metric = Some("P") THEN Value(mul(number, pow(I64(1024), 5), oc))
  ELSE Return(Err("SizeParse"))

FindSize_bytes(number, metric, oc) ==
  IF metric = None THEN Value(number)
  ELSE IF metric = Some("k") THEN Value(mul(number, I64(1024), oc))
  ELSE IF metric = Some("M") THEN Value(mul(number, pow(I64(1024), 2), oc))
  ELSE IF metric = Some("G") THEN Value(mul(number, pow(I64(1024), 3), oc))
  ELSE IF metric = Some("T") THEN Value(mul(number, pow(I64(1024), 4), oc))
  ELSE IF metric = Some("P") THEN Value(mul(number, pow(I64(1024), 5), oc))
  ELSE Return(Err("SizeParse"))

FindSize_variant(sign, bytes) ==
  IF sign = Some("+") THEN Ok("Bigger", bytes)
  ELSE IF sign = Some("-") THEN Ok("Lower", bytes)
  ELSE IF sign = None THEN Ok("Equal", bytes)
  ELSE Err("SizeParse")

FindSize_from_str(s, oc) ==
  LET c == captures(s, SizeUnits)
  IN  IF c = None THEN Panic
      ELSE LET m == c[1]
               sign == first_char(m[1])
               number == parse_i64(m[2])
               metric == first_char(m[3])
           IN  IF ~number.ok THEN ParseIntError(number.err)
               ELSE LET bytes == FindSize_bytes(number.val, metric, oc)
                    IN  IF bytes.ret THEN bytes.res
                        ELSE FindSize_variant(sign, bytes.val)

\* ---------------------------------------------------------------------
\* impl FromStr for FindTime
\* ---------------------------------------------------------------------
TimeUnits == {"s", "m", "h", "d", "w"}

\* a plausible slip: a week is counted as a day
FindTime_seconds_ShortWeek(number, metric, oc) ==
  IF metric = None THEN Value(number)
  ELSE IF metric = Some("s") THEN Value(number)
  ELSE IF metric = Some("m") THEN Value(mul(number, I64(60), oc))
  ELSE IF metric = Some("h") THEN Value(mul(number, I64(3600), oc))
  ELSE IF metric = Some("d")
    THEN Value(mul(mul(number, I64(3600), oc), I64(24), oc))
  ELSE IF metric = Some("w")
    THEN Value(mul(mul(number, I64(3600), oc), I64(24), oc))
  ELSE Return(Err("TimeParse"))

FindTime_seconds(number, metric, oc) ==
  IF metric = None THEN Value(number)
  ELSE IF metric = Some("s") THEN Value(number)
  ELSE IF metric = Some("m") THEN Value(mul(number, I64(60), oc))
  ELSE IF metric = Some("h") THEN Value(mul(number, I64(3600), oc))
  ELSE IF metric = Some("d")
    THEN Value(mul(mul(number, I64(3600), oc), I64(24), oc))
  ELSE IF metric = Some("w")
    THEN Value(mul(mul(mul(number, I64(3600), oc), I64(24), oc), I64(7), oc))
  ELSE Return(Err("TimeParse"))

FindTime_variant(sign, seconds) ==
  IF sign = Some("+") THEN Ok("Upper", seconds)
  ELSE IF sign = Some("-") THEN Ok("Lower", seconds)
  ELSE IF sign = None THEN Ok("Upper", seconds)
  ELSE Err("TimeParse")

FindTime_from_str(s, oc) ==
  LET c == captures(s, TimeUnits)
  IN  IF c = None THEN Panic
      ELSE LET m == c[1]
               sign == first_char(m[1])
               number == parse_i64(m[2])
               metric == first_char(m[3])
           IN  IF ~number.ok THEN ParseIntError(number.err)
               ELSE LET seconds == FindTime_seconds(number.val, metric, oc)
                    IN  IF seconds.ret THEN seconds.res
                        ELSE FindTime_variant(sign, seconds.val)

\* ---------------------------------------------------------------------
\* impl FromStr for FindTag.  Regex (\w+):(\w+)$: a match that starts at i
\* takes the longest run of word characters as the key (a shorter run is
\* followed by a word character, never by the colon), the colon, and the
\* longest run of word characters as the value, which must end the text.
\* Both groups take part in every match.
\* ---------------------------------------------------------------------
WordChars ==
  { "a", "b", "c", "d", "e", "f", "g", "h", "i", "j", "k", "l", "m",
    "n", "o", "p", "q", "r", "s", "t", "u", "v", "w", "x", "y", "z",
    "A", "B", "C", "D", "E", "F", "G", "H", "I", "J", "K", "L", "M",
    "N", "O", "P", "Q", "R", "S", "T", "U", "V", "W", "X", "Y", "Z",
    "0", "1", "2", "3", "4", "5", "6", "7", "8", "9", "_" }

RECURSIVE word_end(_, _)
word_end(s, i) ==
  IF i <= Len(s) /\ s[i] \in WordChars THEN word_end(s, i + 1) ELSE i

tag_is_match_at(s, i) ==
  LET a == word_end(s, i)
  IN  /\ a > i
      /\ a <= Len(s)
      /\ s[a] = ":"
      /\ word_end(s, a + 1) > a + 1
      /\ word_end(s, a + 1) = Len(s) + 1

tag_captures(s) ==
  IF \E i \in 1..Len(s) : tag_is_match_at(s, i)
  THEN LET i == CHOOSE j \in 1..Len(s) :
                  /\ tag_is_match_at(s, j)
                  /\ \A k \in 1..(j - 1) : ~tag_is_match_at(s, k)
           a == word_end(s, i)
       IN  Some(<<Some(SubSeq(s, i, a - 1)), Some(SubSeq(s, a + 1, Len(s)))>>)
  ELSE None

FindTag_from_str(s) ==
  LET c == tag_captures(s)
  IN  IF c = None THEN Err("TagParseError")
      ELSE LET m == c[1]
           IN  IF m[1] = None THEN Err("TagKeyParseError")
               ELSE IF m[2] = None THEN Err("TagValueParseError")
               ELSE [tag |-> "Ok", key |-> m[1][1], value |-> m[2][1]]

\* ---------------------------------------------------------------------
\* The command line: the argument is typed token by token (a character, or
\* a pasted piece of text), then handed to the parser of its field.  The
\* size and time parsers run in a build with or without overflow checks.
\* ---------------------------------------------------------------------
Init == arg = <<>> /\ keys = 0 /\ result = Pending

Type(tokens, max) ==
  /\ result = Pending
  /\ keys < max
  /\ \E t \in tokens : arg' = arg \o t
  /\ keys' = keys + 1
  /\ UNCHANGED result

PathTokens ==
  { <<"s", "3", ":", "/", "/">>, <<"s", "3", ":">>, <<"/">>, <<"b">>, <<"p">> }

TypePath == Type(PathTokens, MaxPathKeys)

ParsePath ==
  /\ result = Pending
  /\ result' = S3path_from_str(arg)
  /\ UNCHANGED <<arg, keys>>

NextPath == TypePath \/ ParsePath

SpecPath == Init /\ [][NextPath]_vars

\* 2^53 - 1, 2^53 and 2^63 - 1: the first times 1024 fits, the second does not
SizeTokens ==
  { <<"+">>, <<"-">>, <<"0">>, <<"1">>, <<"5">>,
    <<"k">>, <<"M">>, <<"G">>, <<"T">>, <<"P">>, <<"w">>,
    <<"9", "0", "0", "7", "1", "9", "9", "2", "5", "4", "7", "4", "0", "9", "9", "1">>,
    <<"9", "0", "0", "7", "1", "9", "9", "2", "5", "4", "7", "4", "0", "9", "9", "2">>,
    <<"9", "2", "2", "3", "3", "7", "2", "0", "3", "6", "8", "5", "4", "7", "7", "5", "8", "0", "7">> }

TypeSize == Type(SizeTokens, MaxSizeKeys)

ParseSize ==
  /\ result = Pending
  /\ \E overflow_checks \in BOOLEAN :
       result' = FindSize_from_str(arg, overflow_checks)
  /\ UNCHANGED <<arg, keys>>

NextSize == TypeSize \/ ParseSize

SpecSize == Init /\ [][NextSize]_vars

\* 153722867280912930 times 60 fits in an i64, 153722867280912931 times 60
\* does not
TimeTokens ==
  { <<"+">>, <<"-">>, <<"0">>, <<"1">>, <<"5">>,
    <<"s">>, <<"m">>, <<"h">>, <<"d">>, <<"w">>, <<"t">>,
    <<"1", "5", "3", "7", "2", "2", "8", "6", "7", "2", "8", "0", "9", "1", "2", "9", "3", "0">>,
    <<"1", "5", "3", "7", "2", "2", "8", "6", "7", "2", "8", "0", "9", "1", "2", "9", "3", "1">>,
    <<"9", "2", "2", "3", "3", "7", "2", "0", "3", "6", "8", "5", "4", "7", "7", "5", "8", "0", "7">> }

TypeTime == Type(TimeTokens, MaxTimeKeys)

ParseTime ==
  /\ result = Pending
  /\ \E overflow_checks \in BOOLEAN :
       result' = FindTime_from_str(arg, overflow_checks)
  /\ UNCHANGED <<arg, keys>>

NextTime == TypeTime \/ ParseTime

SpecTime == Init /\ [][NextTime]_vars

TagTokens == { <<"a">>, <<"1">>, <<"_">>, <<":">>, <<"-">> }

TypeTag == Type(TagTokens, MaxTagKeys)

ParseTag ==
  /\ result = Pending
  /\ result' = FindTag_from_str(arg)
  /\ UNCHANGED <<arg, keys>>

NextTag == TypeTag \/ ParseTag

SpecTag == Init /\ [][NextTag]_vars

\* ---------------------------------------------------------------------
\* The path grammar s3://<bucket>[/<prefix>], read off the text itself
\* ---------------------------------------------------------------------
StartsWithS3 == Len(arg) >= 5 /\ SubSeq(arg, 1, 5) = <<"s", "3", ":", "/", "/">>

AfterScheme == SubSeq(arg, 6, Len(arg))

HasSlash(s) == \E i \in 1..Len(s) : s[i] = "/"

FirstSlash(s) == CHOOSE j \in 1..Len(s) :
                   s[j] = "/" /\ \A k \in 1..(j - 1) : s[k] # "/"

BucketSegment ==
  IF HasSlash(AfterScheme)
  THEN SubSeq(AfterScheme, 1, FirstSlash(AfterScheme) - 1)
  ELSE AfterScheme

PrefixText ==
  IF HasSlash(AfterScheme)
  THEN Some(SubSeq(AfterScheme, FirstSlash(AfterScheme) + 1, Len(AfterScheme)))
  ELSE None

\* C1: every s3://b/p with b non-empty and free of '/', and p any text, also
\* one holding '/', parses to bucket b and prefix Some(p); s3://b parses to
\* bucket b with no prefix; s3://b/ parses to bucket b and prefix Some("").
C1_PathParsed ==
  (result # Pending /\ StartsWithS3 /\ BucketSegment # <<>>)
    => result = [tag |-> "Ok", bucket |-> BucketSegment, prefix |-> PrefixText]

\* C2: an argument that does not start with s3://, or whose bucket segment
\* is empty, is rejected with the S3Parse error and yields no S3path.
C2_PathRejected ==
  (result # Pending /\ (~StartsWithS3 \/ BucketSegment = <<>>))
    => result = [tag |-> "Err", kind |-> "S3Parse"]

C2_Witness ==
  /\ result = [tag |-> "Err", kind |-> "S3Parse"]
  /\ StartsWithS3
  /\ BucketSegment = <<>>
  /\ Len(arg) > 5

\* ---------------------------------------------------------------------
\* The literal grammar [+|-]<integer>[unit], read off the whole text, and
\* the exact (unbounded) value of digits times multiplier
\* ---------------------------------------------------------------------
LitSign == IF arg # <<>> /\ arg[1] \in SignChars THEN Some(arg[1]) ELSE None

LitUnit(units) ==
  IF arg # <<>> /\ arg[Len(arg)] \in units THEN Some(arg[Len(arg)]) ELSE None

LitDigits(units) ==
  SubSeq(arg, 1 + Len(LitSign), Len(arg) - Len(LitUnit(units)))

IsLiteral(units) ==
  /\ LitDigits(units) # <<>>
  /\ \A i \in 1..Len(LitDigits(units)) : IsDigit(LitDigits(units)[i])

\* the number a run of digits writes, one limb more per digit
RECURSIVE ExactDecimal(_, _)
ExactDecimal(s, acc) ==
  IF s = <<>> THEN acc
  ELSE ExactDecimal(Tail(s), MulSmall(acc, 10, to_digit(s[1])))

ExactDigits(units) == ExactDecimal(LitDigits(units), Zeros(I64Limbs))

ExactTimes(x, k) == MulSmall(x, k, 0)

RECURSIVE ExactTimes1024(_, _)
ExactTimes1024(x, n) ==
  IF n = 0 THEN x ELSE ExactTimes1024(ExactTimes(<<0>> \o x, 4), n - 1)

FitsI64(x) ==
  /\ \A i \in (I64Limbs + 1)..Len(x) : x[i] = 0
  /\ x[I64Limbs] < 128

ExactBytes ==
  LET u == LitUnit(SizeUnits)
      d == ExactDigits(SizeUnits)
  IN  IF u = None THEN d
      ELSE IF u = Some("k") THEN ExactTimes1024(d, 1)
      ELSE IF u = Some("M") THEN ExactTimes1024(d, 2)
      ELSE IF u = Some("G") THEN ExactTimes1024(d, 3)
      ELSE IF u = Some("T") THEN ExactTimes1024(d, 4)
      ELSE ExactTimes1024(d, 5)

ExactSeconds ==
  LET u == LitUnit(TimeUnits)
      d == ExactDigits(TimeUnits)
  IN  IF u = None \/ u = Some("s") THEN d
      ELSE IF u = Some("m") THEN ExactTimes(d, 60)
      ELSE IF u = Some("h") THEN ExactTimes(ExactTimes(d, 60), 60)
      ELSE IF u = Some("d") THEN ExactTimes(ExactTimes(ExactTimes(d, 60), 60), 24)
      ELSE ExactTimes(ExactTimes(ExactTimes(ExactTimes(d, 60), 60), 24), 7)

\* the payload is the non-negative number x
PayloadIs(x) ==
  /\ result.tag = "Ok"
  /\ ~IsNegative(result.value)
  /\ FitsI64(x)
  /\ result.value = SubSeq(x, 1, I64Limbs)

SizeVariantOfSign ==
  IF LitSign = Some("+") THEN "Bigger"
  ELSE IF LitSign = Some("-") THEN "Lower" ELSE "Equal"

TimeVariantOfSign == IF LitSign = Some("-") THEN "Lower" ELSE "Upper"

\* C3 (as stated): every size literal [sign]digits[unit] parses; the payload
\* is digits times 1024^n (n = 0 without unit, k=1, M=2, G=3, T=4, P=5) and
\* the variant is Bigger for '+', Lower for '-', Equal without sign.
C3_SizeEveryLiteral ==
  (result # Pending /\ IsLiteral(SizeUnits))
    => (PayloadIs(ExactBytes) /\ result.variant = SizeVariantOfSign)

\* C3 (amended): the same, for the literals whose digits times multiplier is
\* at most 2^63 - 1, the largest payload there is.
C3_SizeLiteral ==
  (result # Pending /\ IsLiteral(SizeUnits) /\ FitsI64(ExactBytes))
    => (PayloadIs(ExactBytes) /\ result.variant = SizeVariantOfSign)

C3_Witness ==
  /\ IsLiteral(SizeUnits)
  /\ LitSign = Some("-")
  /\ LitUnit(SizeUnits) = Some("M")
  /\ result.tag = "Ok"
  /\ result.variant = "Lower"
  /\ result.value = <<0, 0, 80, 0, 0, 0, 0, 0>>

\* C4 (as stated): every time literal [sign]digits[unit] parses; the payload
\* is digits times 1 (no unit, s), 60 (m), 3600 (h), 86400 (d), 604800 (w) and
\* the variant is Lower for '-', Upper for '+' and without sign.
C4_TimeEveryLiteral ==
  (result # Pending /\ IsLiteral(TimeUnits))
    => (PayloadIs(ExactSeconds) /\ result.variant = TimeVariantOfSign)

\* C4 (amended): the same, for the literals whose digits times multiplier is
\* at most 2^63 - 1, the largest payload there is.
C4_TimeLiteral ==
  (result # Pending /\ IsLiteral(TimeUnits) /\ FitsI64(ExactSeconds))
    => (PayloadIs(ExactSeconds) /\ result.variant = TimeVariantOfSign)

C4_Witness ==
  /\ IsLiteral(TimeUnits)
  /\ LitSign = None
  /\ LitUnit(TimeUnits) = Some("w")
  /\ result.tag = "Ok"
  /\ result.variant = "Upper"
  /\ result.value = <<128, 58, 9, 0, 0, 0, 0, 0>>

\* C5: a text the size (time) parser accepts is, as a whole, an optional
\* sign, one or more digits and an optional unit; text before the literal
\* makes the parse fail.
C5_WholeStringOnly ==
  (result # Pending /\ result.tag = "Ok") => IsLiteral(SizeUnits)

\* C7: a size parse that fails on a bad unit or on an empty or non-integer
\* number fails with the SizeParse error.
C7_SizeParseKind ==
  (result # Pending /\ result.tag = "Err") => result.kind = "SizeParse"

\* C9: when the digits parse as an i64, the payload returned is >= 0 and is
\* exactly digits times multiplier; the multiplication neither wraps nor
\* aborts.
C9_NoOverflow ==
  (result # Pending /\ IsLiteral(SizeUnits) /\ FitsI64(ExactDigits(SizeUnits)))
    => /\ result.tag # "Panic"
       /\ result.tag = "Ok" => PayloadIs(ExactBytes)

\* ---------------------------------------------------------------------
\* The canonical text of a value: the sign of the variant, then the payload
\* in decimal (as i64 prints: a '-' before a negative payload), no unit
\* ---------------------------------------------------------------------
RECURSIVE DivRem(_, _)
DivRem(x, k) ==
  IF x = <<>> THEN [q |-> <<>>, r |-> 0]
  ELSE LET hi == DivRem(Tail(x), k)
           cur == hi.r * LimbBase + x[1]
       IN  [q |-> <<cur \div k>> \o hi.q, r |-> cur % k]

RECURSIVE DecimalOf(_)
DecimalOf(x) ==
  IF \A i \in 1..Len(x) : x[i] = 0 THEN <<>>
  ELSE DecimalOf(DivRem(x, 10).q) \o <<AsciiDigits[DivRem(x, 10).r + 1]>>

Negated(x) == AddLimbs([i \in 1..Len(x) |-> 255 - x[i]], I64(1), 0)

DisplayI64(x) ==
  IF IsNegative(x) THEN <<"-">> \o DecimalOf(Negated(x))
  ELSE IF DecimalOf(x) = <<>> THEN <<"0">>
  ELSE DecimalOf(x)

SizeSignOf(variant) ==
  IF variant = "Bigger" THEN <<"+">>
  ELSE IF variant = "Lower" THEN <<"-">> ELSE <<>>

CanonicalSize == SizeSignOf(result.variant) \o DisplayI64(result.value)

\* C10: the canonical text of a value a size parse returned parses again, to
\* the same value.
C10_RoundTrip ==
  (result # Pending /\ result.tag = "Ok")
    => \A oc \in BOOLEAN : FindSize_from_str(CanonicalSize, oc) = result

\* ---------------------------------------------------------------------
\* The tag grammar <word>:<word>, read off the whole text
\* ---------------------------------------------------------------------
IsWord(s) == s # <<>> /\ \A i \in 1..Len(s) : s[i] \in WordChars

HasColon == \E i \in 1..Len(arg) : arg[i] = ":"

FirstColon == CHOOSE j \in 1..Len(arg) :
                arg[j] = ":" /\ \A k \in 1..(j - 1) : arg[k] # ":"

KeyText == SubSeq(arg, 1, FirstColon - 1)

ValueText == SubSeq(arg, FirstColon + 1, Len(arg))

IsTagLiteral == HasColon /\ IsWord(KeyText) /\ IsWord(ValueText)

\* C6: the tag parse succeeds exactly on the texts that are, as a whole,
\* key:value with key and value non-empty runs of word characters, and then
\* returns that key and that value; every other text fails.
C6_TagExactly ==
  result # Pending
    => IF IsTagLiteral
       THEN result = [tag |-> "Ok", key |-> KeyText, value |-> ValueText]
       ELSE result.tag = "Err"

\* C8: a tag without colon fails with TagParseError, one with an empty or
\* invalid key with TagKeyParseError, one with an empty or invalid value with
\* TagValueParseError.
C8_TagErrorKinds ==
  (result # Pending /\ result.tag = "Err")
    => result.kind = (IF ~HasColon THEN "TagParseError"
                      ELSE IF ~IsWord(KeyText) THEN "TagKeyParseError"
                      ELSE "TagValueParseError")

====
